---- MODULE Spec2Model ----
(***************************************************************************)
(* Classification-and-routing pipeline with its Redis-backed memory log.   *)
(*                                                                         *)
(* Python dicts are records whose DOMAIN is the dict's key set, so         *)
(* "error" in d reads "error" \in DOMAIN d, and d["k"] on a missing key   *)
(* is a KeyError.  A model response is a sequence of lexical tokens; the        *)
(* members of the JSON object it carries travel beside it as a record.     *)
(* An await is the boundary between two actions: the code between two      *)
(* awaits runs without interruption on the event loop.                     *)
(***************************************************************************)
EXTENDS Integers, Sequences, FiniteSets, TLC

\* ------------------------------------------------------------------ bounds
MaxEntries == 2       \* store_entry calls made by the direct callers
MaxClock == 1         \* readings of datetime.now() are 0..MaxClock

\* --------------------------------------------------------------- constants
Requests == {"r1"}        \* calls of process_document
Clients == {"c1", "c2"}   \* direct callers of the MemoryManager
Callers == Requests \cup Clients

DocumentFormat == {"pdf", "json", "email"}
DocumentIntent == {"invoice", "rfq", "complaint", "regulation", "general"}

\* str.lower() on the intent strings the model draws from
Lower(s) ==
    CASE s = "RFQ" -> "rfq"
      [] s = "GENERAL" -> "general"
      [] s = "EMAIL" -> "email"
      [] OTHER -> s

\* ------------------------------------------------- model response (tokens)
FenceJson == "<fence>json"   \* three backquotes followed by json
Fence == "<fence>"           \* three backquotes
NL == "\n"
SP == " "
LBrace == "{"
RBrace == "}"
Members == "members"  \* the key/value pairs of an object, no braces inside
Word == "word"        \* prose: several characters, no brace, fence or space
Scalar == "[1]"       \* a JSON value that is not an object
QuotedFence == "members<fence>"  \* members with three backquotes in a string

IsSpace(t) == t \in {SP, NL}

RECURSIVE LStrip(_)
LStrip(s) == IF s # <<>> /\ IsSpace(Head(s)) THEN LStrip(Tail(s)) ELSE s

RECURSIVE RStrip(_)
RStrip(s) ==
    IF s # <<>> /\ IsSpace(s[Len(s)]) THEN RStrip(SubSeq(s, 1, Len(s) - 1)) ELSE s

\* str.strip()
Strip(s) == RStrip(LStrip(s))

\* str.find / str.rfind over tokens: a position of s, or 0 for Python's -1
FindFrom(s, toks, from) ==
    LET hits == {i \in from..Len(s) : s[i] \in toks}
    IN IF hits = {} THEN 0 ELSE CHOOSE i \in hits : \A j \in hits : i <= j

RFind(s, toks) ==
    LET hits == {i \in 1..Len(s) : s[i] \in toks}
    IN IF hits = {} THEN 0 ELSE CHOOSE i \in hits : \A j \in hits : i >= j

\* s[:-1] on characters: a one-character token goes, a longer one is cut short
DropLastChar(s) ==
    IF s = <<>> THEN <<>>
    ELSE LET last == s[Len(s)]
             init == SubSeq(s, 1, Len(s) - 1)
         IN IF last \in {SP, NL, LBrace, RBrace} THEN init
            ELSE Append(init, Word)

\* the fenced-json branch: raw_content[start:end].strip()
FencedJsonPayload(s) ==
    LET tag == FindFrom(s, {FenceJson}, 1)
        end == FindFrom(s, {Fence, FenceJson, QuotedFence}, tag + 1)
    IN IF end = 0
       THEN Strip(DropLastChar(SubSeq(s, tag + 1, Len(s))))
       ELSE IF s[end] = QuotedFence
            THEN Strip(Append(SubSeq(s, tag + 1, end - 1), Word))
            ELSE Strip(SubSeq(s, tag + 1, end - 1))

\* the generic fence branch: '\n'.join(raw_content.split('\n')[1:-1])
FencedPayload(s) ==
    LET first == FindFrom(s, {NL}, 1)
        last == RFind(s, {NL})
    IN IF first = 0 \/ first = last THEN <<>>
       ELSE SubSeq(s, first + 1, last - 1)

TrimToFirstBrace(s) ==
    IF s # <<>> /\ Head(s) = LBrace THEN s
    ELSE LET i == FindFrom(s, {LBrace}, 1)
         IN IF i = 0 THEN s ELSE SubSeq(s, i, Len(s))

TrimToLastBrace(s) ==
    IF s # <<>> /\ s[Len(s)] = RBrace THEN s
    ELSE LET i == RFind(s, {RBrace})
         IN IF i = 0 THEN s ELSE SubSeq(s, 1, i)

\* the text handed to json.loads
Normalize(text) ==
    LET raw == Strip(text)
        unfenced ==
            IF \E i \in 1..Len(raw) : raw[i] = FenceJson
            THEN FencedJsonPayload(raw)
            ELSE IF raw # <<>> /\ Head(raw) = Fence
                 THEN FencedPayload(raw)
                 ELSE raw
    IN TrimToLastBrace(TrimToFirstBrace(unfenced))

\* ------------------------------------------------------------- json.loads
NoSpace(s) == SelectSeq(s, LAMBDA t : ~IsSpace(t))

\* position of the brace closing the one opened at s[1], 0 if unbalanced
RECURSIVE CloseOf(_, _, _)
CloseOf(s, i, depth) ==
    IF i > Len(s) THEN 0
    ELSE IF s[i] = LBrace THEN CloseOf(s, i + 1, depth + 1)
    ELSE IF s[i] = RBrace
         THEN IF depth = 1 THEN i ELSE CloseOf(s, i + 1, depth - 1)
    ELSE CloseOf(s, i + 1, depth)

\* s is the inside of an object: member text and nested objects
RECURSIVE IsMembers(_)
IsMembers(s) ==
    IF s = <<>> THEN TRUE
    ELSE IF Head(s) \in {Members, QuotedFence} THEN IsMembers(Tail(s))
    ELSE IF Head(s) = LBrace
         THEN LET c == CloseOf(s, 1, 0)
              IN /\ c # 0
                 /\ IsMembers(SubSeq(s, 2, c - 1))
                 /\ IsMembers(SubSeq(s, c + 1, Len(s)))
    ELSE FALSE

IsObjectText(s) ==
    /\ Len(s) >= 2
    /\ s[1] = LBrace
    /\ CloseOf(s, 1, 0) = Len(s)
    /\ IsMembers(SubSeq(s, 2, Len(s) - 1))

NonObject == [non_object |-> TRUE]   \* a list, number or string value
EmptyDict == [k \in {} |-> ""]

\* [kind |-> "value", value |-> v] or [kind |-> "JSONDecodeError"]
JsonLoads(s, members) ==
    LET t == NoSpace(s)
    IN IF t = <<Scalar>> THEN [kind |-> "value", value |-> NonObject]
       ELSE IF IsObjectText(t)
            THEN [kind |-> "value",
                  value |-> IF {Members, QuotedFence} \cap {t[i] : i \in 2..Len(t)} # {}
                            THEN members ELSE EmptyDict]
       ELSE [kind |-> "JSONDecodeError"]

IsDict(v) == "non_object" \notin DOMAIN v

\* the texts a model call may return
Responses ==
    { <<LBrace, Members, RBrace>>,
      <<FenceJson, NL, LBrace, Members, RBrace, NL, Fence>>,
      <<Fence, NL, LBrace, Members, RBrace, NL, Fence>>,
      <<Word, SP, LBrace, Members, RBrace, SP, Word>>,
      <<Word, SP, Word>>,
      <<LBrace, Members>>,
      <<Scalar>> }


\* ------------------------------------------------------------ dict helpers
\* dict.update
Update(d, other) ==
    [k \in DOMAIN d \cup DOMAIN other |-> IF k \in DOMAIN other THEN other[k] ELSE d[k]]

\* truth value of a dict (None and {} are both false)
Truthy(d) == DOMAIN d # {}

None == "None"
NoId == 0             \* memory_id = None; uuid4 ids are 1, 2, ...

\* ------------------------------------------------------------ BaseAgent
default_llm == "deepseek-chat"

\* str.startswith for the model ids and provider prefixes in use
StartsWith(model_id, prefix) ==
    <<model_id, prefix>> \in
        { <<"deepseek-chat", "deepseek-">>, <<"deepseek-reason", "deepseek-">>,
          <<"gpt-4o", "gpt-">>, <<"o1", "o1">>,
          <<"claude-3-5-haiku-latest", "claude-">> }

\* the model the returned client talks to, or the exception raised
get_llm(model_id, environ) ==
    IF model_id = None
    THEN [exception |-> "AttributeError"]
    ELSE IF StartsWith(model_id, "deepseek-")
    THEN [model |-> model_id]
    ELSE IF StartsWith(model_id, "gpt-") \/ StartsWith(model_id, "o1")
    THEN IF "OPENAI_API_KEY" \notin environ
         THEN [model |-> default_llm]
         ELSE [model |-> model_id]
    ELSE IF StartsWith(model_id, "claude-")
    THEN IF "ANTHROPIC_API_KEY" \notin environ
         THEN [model |-> default_llm]
         ELSE [model |-> model_id]
    ELSE [model |-> default_llm]

\* BaseAgent.llm, the property the classifier reads
llm_property == default_llm

\* ------------------------------------------------------------------- state
VARIABLES
    memory,            \* Redis hashes memory:<id>, id -> stored field map
    ttl,               \* ids whose hash has a retention TTL
    by_type,           \* Redis sets by_type:<document_type>
    by_intent,         \* Redis sets by_intent:<intent>
    by_thread,         \* Redis sets by_thread:<thread_id>
    by_conversation,   \* Redis sets by_conversation:<conversation_id>
    now,               \* the reading datetime.now() gives
    nextId,            \* the next id uuid4 gives
    environ,           \* names of the provider credentials in os.environ
    loc                \* per caller: position and local variables

storeVars == <<memory, ttl, by_type, by_intent, by_thread, by_conversation>>
vars == <<memory, ttl, by_type, by_intent, by_thread, by_conversation,
          now, nextId, environ, loc>>

ThreadIds == {"t1"}
ConversationIds == {"c1"}

\* --------------------------------------------------------- MemoryManager
RequiredParams == {"source", "document_type", "intent", "extracted_values"}

Arg(args, name) == IF name \in DOMAIN args THEN args[name] ELSE None

MemoryEntry(id, args, timestamp) ==
    [id |-> id,
     source |-> args.source,
     document_type |-> args.document_type,
     intent |-> args.intent,
     timestamp |-> timestamp,
     extracted_values |-> args.extracted_values,
     thread_id |-> Arg(args, "thread_id"),
     conversation_id |-> Arg(args, "conversation_id")]

\* model_dump, isoformat, json.dumps, None -> ""
Serialize(entry) ==
    [id |-> entry.id,
     source |-> entry.source,
     document_type |-> entry.document_type,
     intent |-> entry.intent,
     timestamp |-> [isoformat |-> entry.timestamp],
     extracted_values |-> [json |-> entry.extracted_values],
     thread_id |-> IF entry.thread_id = None THEN "" ELSE entry.thread_id,
     conversation_id |->
         IF entry.conversation_id = None THEN "" ELSE entry.conversation_id]

\* fromisoformat, json.loads, "" -> None, model_validate
Deserialize(data) ==
    [id |-> data.id,
     source |-> data.source,
     document_type |-> data.document_type,
     intent |-> data.intent,
     timestamp |-> data.timestamp.isoformat,
     extracted_values |-> data.extracted_values.json,
     thread_id |-> IF data.thread_id = "" THEN None ELSE data.thread_id,
     conversation_id |->
         IF data.conversation_id = "" THEN None ELSE data.conversation_id]

\* hgetall of a missing or expired key is the empty map
HGetAll(entry_id) == IF entry_id \in DOMAIN memory THEN memory[entry_id] ELSE EmptyDict

NoEntry == [none |-> TRUE]

\* get_entry without its test for the empty map
get_entry_unchecked(entry_id) ==
    LET data == HGetAll(entry_id)
    IN IF \/ ~({"id", "source", "document_type", "intent"} \subseteq DOMAIN data)
          \/ data.document_type \notin DocumentFormat
          \/ data.intent \notin DocumentIntent
       THEN [exception |-> "ValidationError"]
       ELSE Deserialize(data)

\* the entry, NoEntry for None, or the exception model_validate raises
get_entry(entry_id) ==
    LET data == HGetAll(entry_id)
    IN IF ~Truthy(data) THEN NoEntry
       ELSE IF \/ ~({"id", "source", "document_type", "intent"} \subseteq DOMAIN data)
               \/ data.document_type \notin DocumentFormat
               \/ data.intent \notin DocumentIntent
       THEN [exception |-> "ValidationError"]
       ELSE Deserialize(data)

\* store_entry leaving out the by_thread index
NextStoreStepNoThread(c) ==
    CASE c.step = "hset" -> "sadd_type"
      [] c.step = "sadd_type" -> "sadd_intent"
      [] c.step = "sadd_intent" ->
            IF c.entry_data.conversation_id # "" THEN "sadd_conversation"
            ELSE "expire"
      [] c.step = "sadd_thread" -> "expire"
      [] c.step = "sadd_conversation" -> "expire"
      [] c.step = "expire" -> "return"

\* the redis command of store_entry that follows the current one of call c
NextStoreStep(c) ==
    CASE c.step = "hset" -> "sadd_type"
      [] c.step = "sadd_type" -> "sadd_intent"
      [] c.step = "sadd_intent" ->
            IF c.entry_data.thread_id # "" THEN "sadd_thread"
            ELSE IF c.entry_data.conversation_id # "" THEN "sadd_conversation"
            ELSE "expire"
      [] c.step = "sadd_thread" ->
            IF c.entry_data.conversation_id # "" THEN "sadd_conversation"
            ELSE "expire"
      [] c.step = "sadd_conversation" -> "expire"
      [] c.step = "expire" -> "return"

NoCall == [step |-> "none"]

\* ------------------------------------------------------------- the agents
ClassifierFallback ==
    [format |-> "EMAIL",
     intent |-> "GENERAL",
     confidence |-> "0.5",
     reasoning |-> "Failed to parse LLM response as JSON",
     routing_target |-> "email_agent"]

JSONAgent ==
    [name |-> "json_agent",
     document_type |-> "json",
     error |-> "JSON processing failed",
     fallback |->
        [validation_passed |-> FALSE,
         missing_fields |-> <<>>,
         anomalies |-> <<"Failed to parse LLM response">>,
         reformatted_data |-> EmptyDict,
         summary |-> "Processing failed",
         key_insights |-> <<>>]]

EmailAgent ==
    [name |-> "email_agent",
     document_type |-> "email",
     error |-> "Email processing failed",
     fallback |->
        [sender |-> "unknown@example.com",
         subject |-> "Processing failed",
         urgency |-> "MEDIUM",
         sentiment |-> "neutral",
         key_points |-> <<"Failed to parse response">>,
         crm_summary |-> "Email processing error",
         follow_up_required |-> FALSE,
         contact_info_extracted |-> EmptyDict]]

\* AgentOrchestrator.agent_map
agent_map == [json_agent |-> JSONAgent, email_agent |-> EmailAgent]

\* ------------------------------------------------- what the models may say
Without(d, key) == [k \in DOMAIN d \ {key} |-> d[k]]

FullClassifications ==
    [format : {"json", "email", "pdf", "xml"},
     intent : {"invoice", "spam"},
     confidence : {"0.9"},
     reasoning : {"because"},
     routing_target : {"json_agent", "email_agent", "pdf_agent"}]

\* the JSON numbers in use, and a confidence the model wrote as a string
Numbers == {"0", "0.5", "0.9"}

WordedConfidence ==
    [format |-> "json", intent |-> "invoice", confidence |-> "high",
     reasoning |-> "because", routing_target |-> "json_agent"]

ClassifierMembers ==
    FullClassifications \cup {WordedConfidence} \cup
    { Without(d, key) :
        d \in {c \in FullClassifications :
                 c.format = "json" /\ c.intent = "invoice"
                 /\ c.routing_target = "json_agent"},
        key \in {"format", "intent", "confidence", "routing_target"} }

AnalysisMembers(agent) ==
    IF agent = "json_agent"
    THEN {[validation_passed |-> TRUE, summary |-> "An invoice"]}
    ELSE {[sender |-> "a@b.example", urgency |-> "HIGH"]}

\* metadata of a request; None and {} are both the empty map
Metadatas == {EmptyDict, [intent |-> "RFQ"], [intent |-> "spam"]}

ModelIds ==
    {None, "deepseek-reason", "gpt-4o", "claude-3-5-haiku-latest", "llama-3"}

\* each provider credential is present in one environment, missing in the other
Environs == {{"OPENAI_API_KEY"}, {"ANTHROPIC_API_KEY"}}

\* ------------------------------------------------------ request-local state
NoData == [none |-> TRUE]
NoScan == [op |-> "none"]

InitLocal ==
    [pc |-> "idle",
     metadata |-> EmptyDict,
     model_id |-> None,
     llm |-> None,
     classification_data |-> EmptyDict,
     classification_result |-> EmptyDict,
     context |-> EmptyDict,
     target_agent |-> None,
     intent |-> None,
     analysis_result |-> EmptyDict,
     processing_result |-> EmptyDict,
     call |-> NoCall,
     scan |-> NoScan,
     response |-> [status |-> "pending"],
     written |-> <<>>,       \* history: the hashes this caller wrote
     invoked |-> <<>>,       \* history: the handlers whose process was called
     redis_errors |-> 0]     \* history: 1 once a redis command raised

ProcessingResponse(success, message, data, memory_id) ==
    [status |-> "returned", success |-> success, message |-> message,
     data |-> data, memory_id |-> memory_id]

\* return a response from process_document
Return(l, response) == [l EXCEPT !.pc = "done", !.response = response]

\* an exception leaves process_document
Escape(l, exc) ==
    [l EXCEPT !.pc = "done", !.response = [status |-> "raised", exception |-> exc]]

\* ---------------------------------------------- calls, returns, exceptions
RECURSIVE RaiseAt(_, _, _)

\* MemoryManager.store_entry up to its first await: bind the arguments, draw
\* the id, build and serialize the entry.  site names the calling statement.
store_entry(l, args, site) ==
    IF ~(RequiredParams \subseteq DOMAIN args)
    THEN RaiseAt(l, site, "TypeError")
    ELSE [l EXCEPT
            !.pc = "store_entry",
            !.call = [entry_id |-> nextId,
                      memory_entry |-> MemoryEntry(nextId, args, now),
                      entry_data |-> Serialize(MemoryEntry(nextId, args, now)),
                      step |-> "hset",
                      site |-> site]]

\* AgentOrchestrator.process_document, the except clause
OrchestratorExcept(l, exc) ==
    store_entry(l,
        [source |-> "orchestrator",
         document_type |-> "email",
         extracted_values |->
            [error |-> "Orchestration error", error_details |-> exc,
             content_preview |-> "content[:500]"]],
        "orchestrator_except")

\* ClassifierAgent.process, the outer except clause
ClassifierExcept(l, exc) ==
    store_entry(l,
        [source |-> "classifier_agent",
         document_type |-> "email",
         intent |-> "general",
         extracted_values |->
            [error |-> "Classification failed", error_details |-> exc,
             content_preview |-> "content[:500]"]],
        "classifier_except")

\* JSONAgent.process / EmailAgent.process, the outer except clause
AgentExcept(l, exc) ==
    LET agent == agent_map[l.target_agent]
    IN store_entry(l,
        [source |-> agent.name,
         document_type |-> agent.document_type,
         intent |-> "general",
         extracted_values |->
            [error |-> agent.error, error_details |-> exc,
             content_preview |-> "content[:500]"]],
        "agent_except")

\* exception exc raised by the store_entry call at site: the innermost
\* enclosing except clause runs
RaiseAt(l, site, exc) ==
    CASE site = "classifier_try" -> ClassifierExcept(l, exc)
      [] site = "classifier_except" -> OrchestratorExcept(l, exc)
      [] site = "agent_try" -> AgentExcept(l, exc)
      [] site = "agent_except" -> OrchestratorExcept(l, exc)
      [] site = "orchestrator_except" -> Escape(l, exc)
      [] site = "client" -> Escape(l, exc)

\* JSONAgent.process / EmailAgent.process up to the model call
AgentProcess(l, agent, context) ==
    LET intent == IF "intent" \in DOMAIN context THEN context.intent ELSE "general"
        l1 == [l EXCEPT !.target_agent = agent.name,
                        !.context = context,
                        !.intent = intent,
                        !.invoked = Append(@, agent.name)]
        chosen == get_llm(l.model_id, environ)
    IN IF "exception" \in DOMAIN chosen
       THEN AgentExcept(l1, chosen.exception)
       ELSE [l1 EXCEPT !.pc = "agent_ainvoke", !.llm = chosen.model]

\* process_document taking every classifier result for a success
ClassificationFailedNever(classification_result) == FALSE

\* process_document: the test made on the classifier's result
ClassificationFailed(classification_result) ==
    "error" \in DOMAIN classification_result

\* Dispatch handing the handler the classifier's context, metadata ignored
DispatchNoMerge(l, classification_result) ==
    LET l1 == [l EXCEPT !.classification_result = classification_result]
    IN IF ClassificationFailed(classification_result)
       THEN Return(l1, ProcessingResponse(FALSE, "Classification failed",
                                          NoData, classification_result.memory_id))
       ELSE IF ~({"routing_target", "classification"}
                    \subseteq DOMAIN classification_result)
       THEN OrchestratorExcept(l1, "KeyError")
       ELSE
       LET routing_target == classification_result.routing_target
           classification_data == classification_result.classification
       IN IF routing_target \notin DOMAIN agent_map
          THEN Return(l1, ProcessingResponse(FALSE, "No agent available for routing target",
                                             NoData, classification_result.memory_id))
          ELSE IF ~({"intent", "format", "confidence"} \subseteq DOMAIN classification_data)
          THEN OrchestratorExcept(l1, "KeyError")
          ELSE
          LET context ==
                 [intent |-> classification_data.intent,
                  format |-> classification_data.format,
                  confidence |-> classification_data.confidence,
                  classification_memory_id |-> classification_result.memory_id]
              merged == context
          IN AgentProcess(l1, agent_map[routing_target], merged)

\* process_document from the classifier's return to the handler's model call
Dispatch(l, classification_result) ==
    LET l1 == [l EXCEPT !.classification_result = classification_result]
    IN IF ClassificationFailed(classification_result)
       THEN Return(l1, ProcessingResponse(FALSE, "Classification failed",
                                          NoData, classification_result.memory_id))
       ELSE IF ~({"routing_target", "classification"}
                    \subseteq DOMAIN classification_result)
       THEN OrchestratorExcept(l1, "KeyError")
       ELSE
       LET routing_target == classification_result.routing_target
           classification_data == classification_result.classification
       IN IF routing_target \notin DOMAIN agent_map
          THEN Return(l1, ProcessingResponse(FALSE, "No agent available for routing target",
                                             NoData, classification_result.memory_id))
          ELSE IF ~({"intent", "format", "confidence"} \subseteq DOMAIN classification_data)
          THEN OrchestratorExcept(l1, "KeyError")
          ELSE
          LET context ==
                 [intent |-> classification_data.intent,
                  format |-> classification_data.format,
                  confidence |-> classification_data.confidence,
                  classification_memory_id |-> classification_result.memory_id]
              merged == IF Truthy(l.metadata) THEN Update(context, l.metadata)
                        ELSE context
          IN AgentProcess(l1, agent_map[routing_target], merged)

\* Aggregate answering a success with the classifier's memory id
AggregateClassifierId(l, processing_result) ==
    LET l1 == [l EXCEPT !.processing_result = processing_result]
    IN IF ~processing_result.success
       THEN Return(l1, ProcessingResponse(FALSE, "Agent processing failed",
                                          NoData, processing_result.memory_id))
       ELSE Return(l1, ProcessingResponse(TRUE, "Document successfully processed",
                    [classification |-> l.classification_result.classification,
                     processing_result |-> processing_result.result,
                     routing_target |-> l.classification_result.routing_target],
                    l.classification_result.memory_id))

\* Aggregate answering a handler failure without a memory id
AggregateNoMemoryId(l, processing_result) ==
    LET l1 == [l EXCEPT !.processing_result = processing_result]
    IN IF ~processing_result.success
       THEN Return(l1, ProcessingResponse(FALSE, "Agent processing failed",
                                          NoData, NoId))
       ELSE Return(l1, ProcessingResponse(TRUE, "Document successfully processed",
                    [classification |-> l.classification_result.classification,
                     processing_result |-> processing_result.result,
                     routing_target |-> l.classification_result.routing_target],
                    processing_result.memory_id))

\* process_document after the handler returned
Aggregate(l, processing_result) ==
    LET l1 == [l EXCEPT !.processing_result = processing_result]
    IN IF ~processing_result.success
       THEN Return(l1, ProcessingResponse(FALSE, "Agent processing failed",
                                          NoData, processing_result.memory_id))
       ELSE Return(l1, ProcessingResponse(TRUE, "Document successfully processed",
                    [classification |-> l.classification_result.classification,
                     processing_result |-> processing_result.result,
                     routing_target |-> l.classification_result.routing_target],
                    processing_result.memory_id))

\* store_entry returned memory_id to the statement at site
ReturnAt(l, site, memory_id) ==
    CASE site = "classifier_try" ->
            IF "routing_target" \notin DOMAIN l.classification_data
            THEN ClassifierExcept(l, "KeyError")
            ELSE Dispatch(l,
                   [success |-> TRUE,
                    classification |-> l.classification_data,
                    routing_target |-> l.classification_data.routing_target,
                    memory_id |-> memory_id])
      [] site = "classifier_except" ->
            Dispatch(l,
                   [success |-> FALSE,
                    error |-> "Classification failed",
                    routing_target |-> "email_agent",
                    memory_id |-> memory_id])
      [] site = "agent_try" ->
            Aggregate(l,
                   [success |-> TRUE,
                    result |-> l.analysis_result,
                    memory_id |-> memory_id])
      [] site = "agent_except" ->
            Aggregate(l,
                   [success |-> FALSE,
                    error |-> agent_map[l.target_agent].error,
                    memory_id |-> memory_id])
      [] site = "orchestrator_except" ->
            Return(l, ProcessingResponse(FALSE, "System error", NoData, memory_id))
      [] site = "client" ->
            Return(l, [status |-> "returned", memory_id |-> memory_id])

\* outcomes of llm.ainvoke: an exception, or a text with its object members
LLMOutcomes(members) ==
    {[raised |-> TRUE]} \cup
    {[raised |-> FALSE, text |-> t, members |-> m] : t \in Responses, m \in members}

\* ClassifierAgent.process from the model's answer to the store_entry call
ClassifierParse(l, outcome) ==
    IF outcome.raised THEN ClassifierExcept(l, "LLMError")
    ELSE
    LET parsed == JsonLoads(Normalize(outcome.text), outcome.members)
        classification_data ==
            IF parsed.kind = "JSONDecodeError" THEN ClassifierFallback
            ELSE parsed.value
        l1 == [l EXCEPT !.classification_data = classification_data]
    IN IF ~IsDict(classification_data)
       THEN ClassifierExcept(l1, "TypeError")
       ELSE IF ~({"format", "intent"} \subseteq DOMAIN classification_data)
       THEN ClassifierExcept(l1, "KeyError")
       ELSE IF \/ classification_data.format \notin DocumentFormat
               \/ classification_data.intent \notin DocumentIntent
       THEN ClassifierExcept(l1, "ValueError")
       ELSE store_entry(l1,
              [source |-> "classifier_agent",
               document_type |-> classification_data.format,
               intent |-> classification_data.intent,
               extracted_values |->
                  [classification |-> classification_data,
                   content_preview |-> "content[:500]"]],
              "classifier_try")

\* AgentParse treating unparseable text as a hard failure
AgentParseStrict(l, outcome) ==
    IF outcome.raised THEN AgentExcept(l, "LLMError")
    ELSE
    LET agent == agent_map[l.target_agent]
        parsed == JsonLoads(Normalize(outcome.text), outcome.members)
        l1 == [l EXCEPT !.analysis_result =
                  IF parsed.kind = "JSONDecodeError" THEN agent.fallback
                  ELSE parsed.value]
    IN IF parsed.kind = "JSONDecodeError" \/ Lower(l.intent) \notin DocumentIntent
       THEN AgentExcept(l1, "ValueError")
       ELSE store_entry(l1,
              [source |-> agent.name,
               document_type |-> agent.document_type,
               intent |-> Lower(l.intent),
               extracted_values |->
                  [analysis |-> l1.analysis_result,
                   original_content |-> "content[:1000]"]],
              "agent_try")

\* JSONAgent.process / EmailAgent.process from the model's answer to store_entry
AgentParse(l, outcome) ==
    IF outcome.raised THEN AgentExcept(l, "LLMError")
    ELSE
    LET agent == agent_map[l.target_agent]
        parsed == JsonLoads(Normalize(outcome.text), outcome.members)
        analysis_result ==
            IF parsed.kind = "JSONDecodeError" THEN agent.fallback
            ELSE parsed.value
        l1 == [l EXCEPT !.analysis_result = analysis_result]
    IN IF Lower(l.intent) \notin DocumentIntent
       THEN AgentExcept(l1, "ValueError")
       ELSE store_entry(l1,
              [source |-> agent.name,
               document_type |-> agent.document_type,
               intent |-> Lower(l.intent),
               extracted_values |->
                  [analysis |-> analysis_result,
                   original_content |-> "content[:1000]"]],
              "agent_try")

\* AgentOrchestrator.get_memory_entry
get_memory_entry(memory_id) ==
    LET entry == get_entry(memory_id)
    IN IF "exception" \in DOMAIN entry
       THEN [success |-> FALSE, error |-> "Failed to retrieve memory entry"]
       ELSE IF entry = NoEntry
       THEN [success |-> FALSE, error |-> "Memory entry not found"]
       ELSE [success |-> TRUE, entry |-> entry]

\* ------------------------------------------------- lists of entries
\* list.sort(key=lambda x: x.timestamp, reverse=reverse) is stable: e goes
\* behind the entries that sort before it or equal to it
InsertSorted(sorted, e, reverse) ==
    LET k == Cardinality({i \in DOMAIN sorted :
                            IF reverse THEN sorted[i].timestamp >= e.timestamp
                            ELSE sorted[i].timestamp <= e.timestamp})
    IN SubSeq(sorted, 1, k) \o <<e>> \o SubSeq(sorted, k + 1, Len(sorted))

RECURSIVE Sorted(_, _)
Sorted(entries, reverse) ==
    IF entries = <<>> THEN <<>>
    ELSE InsertSorted(Sorted(SubSeq(entries, 1, Len(entries) - 1), reverse),
                      entries[Len(entries)], reverse)

\* entries[:limit]; a negative limit counts from the end
Slice(entries, limit) ==
    IF limit >= 0
    THEN SubSeq(entries, 1, IF limit < Len(entries) THEN limit ELSE Len(entries))
    ELSE SubSeq(entries, 1, IF Len(entries) + limit > 0 THEN Len(entries) + limit ELSE 0)

\* dict.get(key, default)
Get(d, key, default) == IF key \in DOMAIN d THEN d[key] ELSE default

\* get_processing_history: the summary of one entry, or the exception raised
Summary(entry) ==
    LET values == entry.extracted_values
        staged ==
            IF entry.source = "classifier_agent"
            THEN LET classification == Get(values, "classification", EmptyDict)
                 IN IF ~Truthy(classification) THEN [template |-> "none"]
                    ELSE IF Get(classification, "confidence", "0") \notin Numbers
                    THEN [exception |-> "ValueError"]
                    ELSE [template |-> "classifier",
                          format |-> Get(classification, "format", "unknown"),
                          intent |-> Get(classification, "intent", "unknown"),
                          confidence |-> Get(classification, "confidence", "0")]
            ELSE IF entry.source = "email_agent"
            THEN LET analysis == Get(values, "analysis", EmptyDict)
                 IN IF ~Truthy(analysis) THEN [template |-> "none"]
                    ELSE IF ~IsDict(analysis) THEN [exception |-> "AttributeError"]
                    ELSE [template |-> "email",
                          sender |-> Get(analysis, "sender", "unknown"),
                          urgency |-> Get(analysis, "urgency", "unknown"),
                          crm_summary |-> Get(analysis, "crm_summary", "No summary")]
            ELSE IF entry.source = "json_agent"
            THEN LET analysis == Get(values, "analysis", EmptyDict)
                 IN IF ~Truthy(analysis) THEN [template |-> "none"]
                    ELSE IF ~IsDict(analysis) THEN [exception |-> "AttributeError"]
                    ELSE [template |-> "json",
                          validation |->
                              IF Get(analysis, "validation_passed", FALSE) = TRUE
                              THEN "valid" ELSE "invalid",
                          summary |-> Get(analysis, "summary", "No summary")]
            ELSE [template |-> "none"]
    IN IF "template" \in DOMAIN staged /\ staged.template = "none"
          /\ "error_details" \in DOMAIN values
       THEN [template |-> "error", error_details |-> values.error_details]
       ELSE staged

\* AgentOrchestrator.get_processing_history after get_recent_context returned
get_processing_history(recent_entries) ==
    LET summaries == [i \in DOMAIN recent_entries |-> Summary(recent_entries[i])]
    IN IF \E i \in DOMAIN summaries : "exception" \in DOMAIN summaries[i]
       THEN [success |-> FALSE, error |-> "Failed to retrieve history"]
       ELSE [success |-> TRUE,
             history |->
                [i \in DOMAIN recent_entries |->
                    [id |-> recent_entries[i].id,
                     source |-> recent_entries[i].source,
                     document_type |-> recent_entries[i].document_type,
                     intent |-> recent_entries[i].intent,
                     timestamp |-> [isoformat |-> recent_entries[i].timestamp],
                     summary |-> summaries[i]]],
             total_entries |-> Len(recent_entries)]

\* the listing is read through: sort, cut, and hand the list to the caller;
\* quiet notes (for a direct caller) that every store_entry call had
\* completed when the listing began and that no hash changed since
ScanFinish(l) ==
    LET scan == l.scan
        entries ==
            CASE scan.op = "get_recent_context" ->
                    Slice(Sorted(scan.entries, TRUE), scan.arg)
              [] scan.op = "get_entries_by_type" -> Sorted(scan.entries, TRUE)
              [] scan.op = "get_entries_by_thread" -> Sorted(scan.entries, FALSE)
    IN Return([l EXCEPT !.scan = NoScan],
              IF scan.site = "history"
              THEN [status |-> "returned", op |-> "get_processing_history",
                    arg |-> scan.arg, entries |-> entries,
                    result |-> get_processing_history(entries)]
              ELSE [status |-> "returned", op |-> scan.op, arg |-> scan.arg,
                    collected |-> {scan.entries[i] : i \in DOMAIN scan.entries},
                    quiet |-> scan.settled /\ scan.began = memory,
                    entries |-> entries])

\* the for loop over the listed ids: await the next get_entry, or finish
ScanLoop(l) == IF l.scan.pending = {} THEN ScanFinish(l) ELSE l

\* ----------------------------------------------------------------- actions
Init ==
    /\ memory = EmptyDict
    /\ ttl = {}
    /\ by_type = [t \in DocumentFormat |-> {}]
    /\ by_intent = [i \in DocumentIntent |-> {}]
    /\ by_thread = [t \in ThreadIds |-> {}]
    /\ by_conversation = [c \in ConversationIds |-> {}]
    /\ now = 0
    /\ nextId = 1
    /\ environ \in Environs
    /\ loc = [r \in Callers |-> InitLocal]

\* Step with uuid4 returning the same id for every call
StepReuseId(r, l) ==
    /\ loc' = [loc EXCEPT ![r] = l]
    /\ nextId' = nextId

\* request r moves to local state l; a store_entry call begun on the way drew
\* the id nextId
Step(r, l) ==
    /\ loc' = [loc EXCEPT ![r] = l]
    /\ nextId' = IF l.pc = "store_entry" /\ l.call.entry_id = nextId
                 THEN nextId + 1 ELSE nextId

\* process_document(content, content_type, metadata, model_id) is called and
\* reaches the classifier's model call
ProcessDocumentWith(r, metadata, model_id) ==
    /\ loc[r].pc = "idle"
    /\ Step(r, [InitLocal EXCEPT !.pc = "classifier_ainvoke",
                                 !.metadata = metadata,
                                 !.model_id = model_id,
                                 !.llm = llm_property])
    /\ UNCHANGED <<storeVars, now, environ>>

\* process_document is called with any metadata and model id
ProcessDocument(r) ==
    \E metadata \in Metadatas, model_id \in ModelIds :
        ProcessDocumentWith(r, metadata, model_id)

\* the classifier's model call ends
ClassifierInvoke(r) ==
    /\ loc[r].pc = "classifier_ainvoke"
    /\ \E outcome \in LLMOutcomes(ClassifierMembers) :
         Step(r, ClassifierParse(loc[r], outcome))
    /\ UNCHANGED <<storeVars, now, environ>>

\* the handler's model call ends
AgentInvoke(r) ==
    /\ loc[r].pc = "agent_ainvoke"
    /\ \E outcome \in LLMOutcomes(AnalysisMembers(loc[r].target_agent)) :
         Step(r, AgentParse(loc[r], outcome))
    /\ UNCHANGED <<storeVars, now, environ>>

SAdd(index, key, entry_id) == [index EXCEPT ![key] = @ \cup {entry_id}]

\* the redis command store_entry is waiting for completes; after the last
\* one store_entry returns and the caller runs on to its next await
StoreStep(r) ==
    LET c == loc[r].call
        next == NextStoreStep(c)
        l1 == [loc[r] EXCEPT
                 !.call.step = next,
                 !.written = IF c.step = "hset"
                             THEN Append(@, [id |-> c.entry_id,
                                             source |-> c.entry_data.source])
                             ELSE @]
    IN /\ loc[r].pc = "store_entry"
       /\ memory' = IF c.step = "hset"
                    THEN (c.entry_id :> c.entry_data) @@ memory
                    ELSE memory
       /\ by_type' = IF c.step = "sadd_type"
                     THEN SAdd(by_type, c.entry_data.document_type, c.entry_id)
                     ELSE by_type
       /\ by_intent' = IF c.step = "sadd_intent"
                       THEN SAdd(by_intent, c.entry_data.intent, c.entry_id)
                       ELSE by_intent
       /\ by_thread' = IF c.step = "sadd_thread"
                       THEN SAdd(by_thread, c.entry_data.thread_id, c.entry_id)
                       ELSE by_thread
       /\ by_conversation' =
             IF c.step = "sadd_conversation"
             THEN SAdd(by_conversation, c.entry_data.conversation_id, c.entry_id)
             ELSE by_conversation
       /\ ttl' = IF c.step = "expire" /\ c.entry_id \in DOMAIN memory
                 THEN ttl \cup {c.entry_id} ELSE ttl
       /\ Step(r, IF next = "return"
                  THEN ReturnAt(l1, c.site, c.entry_id)
                  ELSE l1)
       /\ UNCHANGED <<now, environ>>

\* the redis command store_entry is waiting for raises
StoreFail(r) ==
    /\ loc[r].pc = "store_entry"
    /\ Step(r, RaiseAt([loc[r] EXCEPT !.redis_errors = 1],
                        loc[r].call.site, "RedisError"))
    /\ UNCHANGED <<storeVars, now, environ>>

\* the wall clock advances
Tick ==
    /\ now < MaxClock
    /\ now' = now + 1
    /\ UNCHANGED <<storeVars, nextId, environ, loc>>

\* Redis drops a hash whose retention time is over
Expire(entry_id) ==
    /\ entry_id \in ttl
    /\ memory' = [k \in DOMAIN memory \ {entry_id} |-> memory[k]]
    /\ ttl' = ttl \ {entry_id}
    /\ UNCHANGED <<by_type, by_intent, by_thread, by_conversation,
                   now, nextId, environ, loc>>

Next ==
    \/ \E r \in Requests : ProcessDocument(r)
    \/ \E r \in Requests : ClassifierInvoke(r)
    \/ \E r \in Requests : AgentInvoke(r)
    \/ \E r \in Requests : StoreStep(r)
    \/ \E r \in Requests : StoreFail(r)
    \/ Tick
    \/ \E entry_id \in ttl : Expire(entry_id)

\* process_document never reads the store, so one call from the empty store
\* shows what every call does
Spec == Init /\ [][Next]_vars

\* ------------------------------------------- the MemoryManager on its own
\* no thread_id and an empty conversation_id; both keys given
StoreArgs ==
    { [source |-> "email_agent",
       document_type |-> "email",
       intent |-> "general",
       extracted_values |-> [error |-> "Email processing failed"],
       conversation_id |-> ""],
      [source |-> "email_agent",
       document_type |-> "email",
       intent |-> "general",
       extracted_values |-> [error |-> "Email processing failed"],
       thread_id |-> "t1",
       conversation_id |-> "c1"] }

\* a caller awaits store_entry(**args)
ClientStoreEntry(c) ==
    /\ loc[c].pc \in {"idle", "done"}
    /\ nextId <= MaxEntries
    /\ \E args \in StoreArgs : Step(c, store_entry(InitLocal, args, "client"))
    /\ UNCHANGED <<storeVars, now, environ>>

\* get_memory_entry taking the hash out of the store as it reads it
GetMemoryEntryConsuming(c, memory_id) ==
    /\ loc[c].pc \in {"idle", "done"}
    /\ Step(c, Return(InitLocal,
                 [status |-> "returned",
                  memory_id |-> memory_id,
                  had_record |-> memory_id \in DOMAIN memory,
                  entry |-> get_entry(memory_id),
                  result |-> get_memory_entry(memory_id)]))
    /\ memory' = [k \in DOMAIN memory \ {memory_id} |-> memory[k]]
    /\ ttl' = ttl \ {memory_id}
    /\ UNCHANGED <<by_type, by_intent, by_thread, by_conversation, now, environ>>

\* a caller awaits get_memory_entry(memory_id); had_record notes whether the
\* hash existed when it was read
GetMemoryEntry(c, memory_id) ==
    /\ loc[c].pc \in {"idle", "done"}
    /\ Step(c, Return(InitLocal,
                 [status |-> "returned",
                  memory_id |-> memory_id,
                  had_record |-> memory_id \in DOMAIN memory,
                  entry |-> get_entry(memory_id),
                  result |-> get_memory_entry(memory_id)]))
    /\ UNCHANGED <<storeVars, now, environ>>

\* ------------------------------------------------ the listing operations
\* limits of a history or recent-context request
Limits == {-1, 1, 10}

\* SMEMBERS of a key; a key that was never added to is the empty set
SMembers(index, key) == IF key \in DOMAIN index THEN index[key] ELSE {}

\* an exception leaves get_entry inside a listing operation
ScanRaise(l, exc) ==
    IF l.scan.site = "history"
    THEN Return([l EXCEPT !.scan = NoScan],
                [status |-> "returned", op |-> "get_processing_history",
                 arg |-> l.scan.arg, entries |-> <<>>,
                 result |-> [success |-> FALSE,
                             error |-> "Failed to retrieve history"]])
    ELSE Escape([l EXCEPT !.scan = NoScan], exc)

\* no store_entry call is under way and every hash has its retention time,
\* which store_entry sets last
StoreSettled ==
    /\ \A w \in Callers : loc[w].pc # "store_entry"
    /\ DOMAIN memory \subseteq ttl

\* the KEYS or SMEMBERS command of a listing operation answers with ids, in
\* an order of the server's choosing that shows as the loop reads them
BeginScan(c, op, arg, site, ids) ==
    /\ Step(c, ScanLoop([InitLocal EXCEPT
                             !.pc = "scan",
                             !.scan = [op |-> op, arg |-> arg, site |-> site,
                                       pending |-> ids,
                                       entries |-> <<>>,
                                       began |-> IF site = "client" THEN memory
                                                 ELSE EmptyDict,
                                       settled |-> StoreSettled]]))
    /\ UNCHANGED <<storeVars, now, environ>>

\* a caller awaits get_recent_context(limit)
GetRecentContext(c, limit) ==
    /\ loc[c].pc \in {"idle", "done"}
    /\ BeginScan(c, "get_recent_context", limit, "client", DOMAIN memory)

\* GET /history?limit=: get_processing_history awaits get_recent_context(limit)
GetProcessingHistory(c, limit) ==
    /\ loc[c].pc \in {"idle", "done"}
    /\ BeginScan(c, "get_recent_context", limit, "history", DOMAIN memory)

\* a caller awaits get_entries_by_type(document_type)
GetEntriesByType(c, document_type) ==
    /\ loc[c].pc \in {"idle", "done"}
    /\ BeginScan(c, "get_entries_by_type", document_type, "client",
                 SMembers(by_type, document_type))

\* a caller awaits get_entries_by_thread(thread_id)
GetEntriesByThread(c, thread_id) ==
    /\ loc[c].pc \in {"idle", "done"}
    /\ BeginScan(c, "get_entries_by_thread", thread_id, "client",
                 SMembers(by_thread, thread_id))

\* the get_entry a listing operation is waiting for answers; entry_id is
\* the next id of the listing
ScanStep(c) ==
    /\ loc[c].pc = "scan"
    /\ \E entry_id \in loc[c].scan.pending :
         LET entry == get_entry(entry_id)
             l1 == [loc[c] EXCEPT
                      !.scan.pending = @ \ {entry_id},
                      !.scan.entries = IF entry = NoEntry THEN @ ELSE Append(@, entry)]
         IN Step(c, IF "exception" \in DOMAIN entry
                    THEN ScanRaise(loc[c], entry.exception)
                    ELSE ScanLoop(l1))
    /\ UNCHANGED <<storeVars, now, environ>>

NextMemory ==
    \/ \E c \in Clients : ClientStoreEntry(c)
    \/ \E c \in Clients : StoreStep(c)
    \/ \E c \in Clients : StoreFail(c)
    \/ Tick
    \/ \E entry_id \in ttl : Expire(entry_id)
    \/ \E c \in Clients, memory_id \in 1..MaxEntries : GetMemoryEntry(c, memory_id)

SpecMemory == Init /\ [][NextMemory]_vars

\* ------------------------------------ one writer and one reader of the store
Writers == {"c1"}
Readers == {"c2"}

NextQueries ==
    \/ \E w \in Writers : ClientStoreEntry(w)
    \/ \E w \in Writers : StoreStep(w)
    \/ \E w \in Writers : StoreFail(w)
    \/ Tick
    \/ \E entry_id \in ttl : Expire(entry_id)
    \/ \E c \in Readers, limit \in Limits : GetRecentContext(c, limit)
    \/ \E c \in Readers, document_type \in DocumentFormat :
          GetEntriesByType(c, document_type)
    \/ \E c \in Readers, thread_id \in ThreadIds \cup {""} :
          GetEntriesByThread(c, thread_id)
    \/ \E c \in Readers : ScanStep(c)

SpecQueries == Init /\ [][NextQueries]_vars

\* ------------------------------------- the pipeline and a reader of /history
\* GET /history with its default limit and with limit=1
HistoryLimits == {1, 10}

NextHistory ==
    \/ \E r \in Requests : ProcessDocumentWith(r, EmptyDict, "deepseek-reason")
    \/ \E r \in Requests : ClassifierInvoke(r)
    \/ \E r \in Requests : AgentInvoke(r)
    \/ \E r \in Requests : StoreStep(r)
    \/ \E r \in Requests : StoreFail(r)
    \/ Tick
    \/ \E entry_id \in ttl : Expire(entry_id)
    \/ \E c \in Readers, limit \in HistoryLimits : GetProcessingHistory(c, limit)
    \/ \E c \in Readers : ScanStep(c)

\* the deployment whose credential is the OpenAI key
InitHistory == Init /\ environ = {"OPENAI_API_KEY"}

SpecHistory == InitHistory /\ [][NextHistory]_vars

\* ------------------------------------ the pipeline under caller metadata
\* metadata of POST /process: none, an intent in upper case, an intent that
\* is no DocumentIntent, and one overriding the other keys of the context
DispatchMetadatas ==
    { EmptyDict,
      [intent |-> "RFQ"],
      [intent |-> "spam"],
      [format |-> "email", routing_target |-> "email_agent",
       classification_memory_id |-> 7] }

NextDispatch ==
    \/ \E r \in Requests, metadata \in DispatchMetadatas :
          ProcessDocumentWith(r, metadata, "deepseek-reason")
    \/ \E r \in Requests : ClassifierInvoke(r)
    \/ \E r \in Requests : AgentInvoke(r)
    \/ \E r \in Requests : StoreStep(r)
    \/ \E r \in Requests : StoreFail(r)
    \/ Tick
    \/ \E entry_id \in ttl : Expire(entry_id)

SpecDispatch == InitHistory /\ [][NextDispatch]_vars

\* ------------------------------- the three copies of the response parser
MaxProse == 2         \* tokens before and after the object in a response

Stages == {"classifier_agent", "json_agent", "email_agent"}

\* the object a stage uses when json.loads raises JSONDecodeError
StageFallback(stage) ==
    IF stage = "classifier_agent" THEN ClassifierFallback
    ELSE agent_map[stage].fallback

\* the object the text of a stage's model stands for when it has members
StageMembers(stage) ==
    IF stage = "classifier_agent" THEN WordedConfidence
    ELSE CHOOSE m \in AnalysisMembers(stage) : TRUE

\* a stage's inner try block: strip, unfence, trim to the braces, json.loads,
\* the fallback object on JSONDecodeError
ParseResponse(stage, text) ==
    LET parsed == JsonLoads(Normalize(text), StageMembers(stage))
    IN IF parsed.kind = "JSONDecodeError" THEN StageFallback(stage)
       ELSE parsed.value

\* well-formed JSON object texts: empty, flat, with inner white space,
\* nested, and with a string value holding three backquotes
ObjectTexts ==
    { <<LBrace, RBrace>>,
      <<LBrace, Members, RBrace>>,
      <<LBrace, NL, Members, NL, RBrace>>,
      <<LBrace, Members, LBrace, Members, RBrace, RBrace>>,
      <<LBrace, QuotedFence, RBrace>> }

\* what a model may write around the object
ProseTokens == {Word, SP, NL, Fence, FenceJson, LBrace, RBrace}

Prose == UNION {[1..n -> ProseTokens] : n \in 0..MaxProse}

\* the model of a stage answers lead + object + trail and the stage parses it
ParseModelResponse(c) ==
    /\ loc[c].pc = "idle"
    /\ \E stage \in Stages, lead \in Prose, object \in ObjectTexts, trail \in Prose :
         LET text == lead \o object \o trail
         IN Step(c, Return(InitLocal,
                     [status |-> "returned",
                      op |-> "parse",
                      stage |-> stage,
                      lead |-> lead,
                      object |-> object,
                      trail |-> trail,
                      text |-> text,
                      raw_content |-> Normalize(text),
                      data |-> ParseResponse(stage, text)]))
    /\ UNCHANGED <<storeVars, now, environ>>

NextParser == \E c \in Readers : ParseModelResponse(c)

SpecParser == InitHistory /\ [][NextParser]_vars

\* ================================================================== claims
Done(r) == loc[r].pc = "done"
Returned(r) == Done(r) /\ loc[r].response.status = "returned"
Failed(r) == Returned(r) /\ ~loc[r].response.success
ClassifierReturned(r) == Truthy(loc[r].classification_result)
HandlerReturned(r) == Truthy(loc[r].processing_result)
Wrote(r, id, source) ==
    \E i \in DOMAIN loc[r].written : loc[r].written[i] = [id |-> id, source |-> source]

\* C1: process_document never raises; an exception in the CLASSIFY/DISPATCH
\* sequence ends in a FAILED "System error" response whose memory_id is the
\* id of an Entry the request stored with source orchestrator.
C1_NeverRaises ==
    \A r \in Requests :
        Done(r) =>
            /\ loc[r].response.status = "returned"
            /\ loc[r].response.message = "System error" =>
                  /\ ~loc[r].response.success
                  /\ Wrote(r, loc[r].response.memory_id, "orchestrator")

\* C2: every result the classifier returns has a routing_target that is
\* json_agent or email_agent.
C2_RoutingTargetKnown ==
    \A r \in Requests :
        ClassifierReturned(r) =>
            loc[r].classification_result.routing_target \in {"json_agent", "email_agent"}

\* C3: when the model's text does not parse, the classifier returns the
\* fallback classification (email, general, 0.5, routed to email_agent) and
\* its Entry has document_type email and intent general.
C3_ParseFallback ==
    \A r \in Requests :
        (ClassifierReturned(r) /\ loc[r].classification_data = ClassifierFallback) =>
            LET result == loc[r].classification_result
            IN /\ "classification" \in DOMAIN result
               /\ result.classification =
                     [ClassifierFallback EXCEPT !.format = "email", !.intent = "general"]
               /\ result.routing_target = "email_agent"
               /\ result.memory_id \in DOMAIN memory =>
                     /\ memory[result.memory_id].document_type = "email"
                     /\ memory[result.memory_id].intent = "general"
                     /\ "classification" \in DOMAIN memory[result.memory_id].extracted_values.json

\* the routing rule of the classifier stage: json to json_agent, the rest to
\* email_agent
RoutingRule(format) == IF format = "json" THEN "json_agent" ELSE "email_agent"

\* C4: a successful classifier result routes by its format, and the handler
\* the orchestrator calls is the one the format names.
C4_RoutingFollowsFormat ==
    \A r \in Requests :
        (ClassifierReturned(r) /\ loc[r].classification_result.success) =>
            LET result == loc[r].classification_result
            IN /\ result.routing_target = RoutingRule(result.classification.format)
               /\ \A i \in DOMAIN loc[r].invoked :
                     loc[r].invoked[i] = RoutingRule(result.classification.format)

\* C5: a handler is called only after the classifier reported success with a
\* registered routing target; when the classifier fails or the target is not
\* registered the request ends FAILED with the classifier Entry's id, no
\* handler was called and no handler Entry was written.
C5_HandlerOnlyWhenRouted ==
    \A r \in Requests :
        LET result == loc[r].classification_result
        IN /\ loc[r].invoked # <<>> =>
                /\ ClassifierReturned(r)
                /\ result.success
                /\ result.routing_target \in DOMAIN agent_map
                /\ loc[r].invoked = <<result.routing_target>>
           /\ (ClassifierReturned(r)
                 /\ (~result.success \/ result.routing_target \notin DOMAIN agent_map)) =>
                /\ Failed(r)
                /\ loc[r].response.memory_id = result.memory_id
                /\ Wrote(r, result.memory_id, "classifier_agent")
                /\ loc[r].invoked = <<>>
                /\ \A i \in DOMAIN loc[r].written :
                      loc[r].written[i].source = "classifier_agent"

C5_Witness ==
    \E r \in Requests :
        /\ Failed(r)
        /\ loc[r].classification_result.success
        /\ loc[r].classification_result.routing_target = "pdf_agent"

\* C6: a success response comes after exactly two Entries of the request,
\* the classifier's and then the called handler's; its memory_id is the
\* handler Entry's id and its data holds the classification, the handler's
\* result and the routing target of the handler that was called.
C6_SuccessAfterTwoEntries ==
    \A r \in Requests :
        (Returned(r) /\ loc[r].response.success) =>
            /\ Len(loc[r].written) = 2
            /\ Len(loc[r].invoked) = 1
            /\ loc[r].written[1] =
                  [id |-> loc[r].classification_result.memory_id,
                   source |-> "classifier_agent"]
            /\ loc[r].written[2] =
                  [id |-> loc[r].response.memory_id, source |-> loc[r].invoked[1]]
            /\ loc[r].response.memory_id = loc[r].processing_result.memory_id
            /\ loc[r].response.data =
                  [classification |-> loc[r].classification_result.classification,
                   processing_result |-> loc[r].processing_result.result,
                   routing_target |-> loc[r].invoked[1]]

C6_Witness ==
    \E r \in Requests :
        /\ Returned(r)
        /\ loc[r].response.success
        /\ loc[r].invoked = <<"json_agent">>
        /\ loc[r].response.data.processing_result \in AnalysisMembers("json_agent")

\* C7: a FAILED response carries a message, and if the request wrote an Entry
\* its memory_id is the id of an Entry of the request that is in the store
\* when the response is returned, the handler's Entry if the handler failed.
C7_FailedCarriesMemoryId ==
    [][\A r \in Requests :
         (~Done(r) /\ Failed(r)') =>
            /\ loc'[r].response.message # ""
            /\ loc'[r].written # <<>> =>
                  /\ loc'[r].response.memory_id # NoId
                  /\ loc'[r].response.memory_id \in DOMAIN memory'
                  /\ \E i \in DOMAIN loc'[r].written :
                        loc'[r].written[i].id = loc'[r].response.memory_id
            /\ HandlerReturned(r)' =>
                  Wrote(r, loc[r].response.memory_id, loc[r].target_agent)']_vars

C7_Witness ==
    \E r \in Requests :
        /\ Failed(r)
        /\ HandlerReturned(r)
        /\ loc[r].response.memory_id \in DOMAIN memory
        /\ Wrote(r, loc[r].response.memory_id, "email_agent")

ParseFellBack(r) ==
    /\ loc[r].target_agent # None
    /\ loc[r].analysis_result = agent_map[loc[r].target_agent].fallback

FallbackReported(r) ==
    /\ HandlerReturned(r)
    /\ loc[r].processing_result.success
    /\ loc[r].processing_result.result = agent_map[loc[r].target_agent].fallback
    /\ Returned(r)
    /\ loc[r].response.success
    /\ loc[r].response.data.processing_result = agent_map[loc[r].target_agent].fallback

SelectedModel(model_id) ==
    IF \/ StartsWith(model_id, "deepseek-")
       \/ (StartsWith(model_id, "gpt-") \/ StartsWith(model_id, "o1"))
             /\ "OPENAI_API_KEY" \in environ
       \/ StartsWith(model_id, "claude-") /\ "ANTHROPIC_API_KEY" \in environ
    THEN model_id
    ELSE default_llm

\* C9: in the classifier stage and in the handler stage the model called is
\* the one the model id selects, the default model for an absent, unknown or
\* credential-less id, and the model id never makes a stage fail.
C9_ModelSelection ==
    \A r \in Requests :
        /\ loc[r].pc \in {"classifier_ainvoke", "agent_ainvoke"} =>
              loc[r].llm = SelectedModel(loc[r].model_id)
        /\ loc[r].pc = "store_entry" =>
              LET values == loc[r].call.entry_data.extracted_values.json
              IN "error_details" \in DOMAIN values =>
                    values.error_details # "AttributeError"

IsLookup(c) == Done(c) /\ "had_record" \in DOMAIN loc[c].response

\* C10: get_memory_entry on an id without a primary record answers
\* success false with the not-found error and does not raise, and get_entry
\* gives None for it.
C10_UnknownIdNotFound ==
    \A c \in Clients :
        (IsLookup(c) /\ ~loc[c].response.had_record) =>
            /\ loc[c].response.result =
                  [success |-> FALSE, error |-> "Memory entry not found"]
            /\ loc[c].response.entry = NoEntry

\* the id looked up was stored and has expired since
C10_Witness ==
    \E c \in Clients :
        /\ IsLookup(c)
        /\ ~loc[c].response.had_record
        /\ loc[c].response.memory_id \in by_type["email"]
        /\ loc[c].response.result.success = FALSE

\* the MemoryEntry built by the store_entry call that returned id, as a set
StoredEntry(id) ==
    { loc[w].call.memory_entry :
        w \in {x \in Callers : loc[x].call.step = "return" /\ loc[x].call.entry_id = id} }

\* C11: get_entry(id) after store_entry(...) returned id gives an Entry equal
\* in every field to the one store_entry built from its arguments: an absent
\* thread_id or conversation_id is read back absent and a value the caller
\* gave, the empty string included, is read back as given.
C11_RoundTrip ==
    \A c \in Clients :
        (IsLookup(c) /\ loc[c].response.had_record) =>
            \A stored \in StoredEntry(loc[c].response.memory_id) :
                loc[c].response.entry = stored

\* a redis command of some store_entry call is executed in this step
StoreCommand == \E w \in Clients : StoreStep(w)

\* C12 as stated: over any step that executes no command of a store_entry
\* call, get_entry(id) gives the same result before and after, for every id;
\* so two get_entry(id) calls with no store between them agree.
C12_ReadsRepeat ==
    [][~StoreCommand =>
         \A id \in 1..MaxEntries : get_entry(id)' = get_entry(id)]_vars

\* C12 amended: the same, as long as the record of id does not expire
\* between the two calls.
C12_ReadsRepeatUntilExpiry ==
    [][\A id \in 1..MaxEntries :
         (~StoreCommand /\ ~Expire(id)) => get_entry(id)' = get_entry(id)]_vars

\* both callers have read the same stored id and got the same Entry
C12_Witness ==
    \E id \in 1..MaxEntries :
        \A c \in Clients :
            /\ IsLookup(c)
            /\ loc[c].response.memory_id = id
            /\ loc[c].response.had_record
            /\ loc[c].response.entry = get_entry(id)
            /\ loc[c].response.entry # NoEntry

\* caller c holds the answer of listing operation op
Listed(c, op) ==
    /\ Returned(c)
    /\ "op" \in DOMAIN loc[c].response
    /\ loc[c].response.op = op

\* C13: get_recent_context(limit), having found n live entries, returns
\* min(limit, n) of them (none for a limit below zero), never more than
\* limit, in descending timestamp order, and no entry left out is newer than
\* one returned.
C13_RecentContext ==
    \A c \in Readers :
        Listed(c, "get_recent_context") =>
            LET limit == loc[c].response.arg
                live == loc[c].response.collected
                entries == loc[c].response.entries
                n == Cardinality(live)
            IN /\ Len(entries) = IF limit < 0 THEN 0
                                 ELSE IF limit < n THEN limit ELSE n
               /\ \A i, j \in DOMAIN entries :
                     i < j => /\ entries[i].timestamp >= entries[j].timestamp
                              /\ entries[i].id # entries[j].id
               /\ \A i \in DOMAIN entries : entries[i] \in live
               /\ \A left \in live \ {entries[i] : i \in DOMAIN entries} :
                     \A i \in DOMAIN entries :
                        entries[i].timestamp >= left.timestamp

\* the summary template of the stage that writes under a source name
TemplateOf(source) ==
    CASE source = "classifier_agent" -> "classifier"
      [] source = "email_agent" -> "email"
      [] source = "json_agent" -> "json"
      [] OTHER -> "error"

\* C14: over a store written by the pipeline, get_processing_history(limit)
\* answers success with one item per entry get_recent_context(limit)
\* returned, in the same order, total_entries counting the items, and each
\* summary made by the template of the entry's source or by the error
\* fallback.
C14_HistoryListsEveryEntry ==
    \A c \in Readers :
        Listed(c, "get_processing_history") =>
            LET entries == loc[c].response.entries
                result == loc[c].response.result
            IN /\ result.success
               /\ Len(result.history) = Len(entries)
               /\ result.total_entries = Len(result.history)
               /\ \A i \in DOMAIN entries :
                     /\ result.history[i].id = entries[i].id
                     /\ result.history[i].source = entries[i].source
                     /\ result.history[i].summary.template \in
                           {TemplateOf(entries[i].source), "error"}

\* id is in the set of index under key and in no other set of index
InOnly(index, key, id) ==
    \A k \in DOMAIN index : (id \in index[k]) <=> (k = key)

InNone(index, id) == \A k \in DOMAIN index : id \notin index[k]

\* the Entry of each completed store_entry call is in the by_type set of its
\* document_type and the by_intent set of its intent, and in the by_thread /
\* by_conversation set of a key exactly when the caller gave that key
IndexedAsSupplied ==
    \A w \in Writers :
        loc[w].call.step = "return" =>
            LET e == loc[w].call.memory_entry
            IN /\ InOnly(by_type, e.document_type, e.id)
               /\ InOnly(by_intent, e.intent, e.id)
               /\ IF e.thread_id # None
                  THEN e.id \in SMembers(by_thread, e.thread_id)
                  ELSE InNone(by_thread, e.id)
               /\ IF e.conversation_id # None
                  THEN e.id \in SMembers(by_conversation, e.conversation_id)
                  ELSE InNone(by_conversation, e.id)

\* the same over every live Entry of a completed call, a key counting as
\* given when it is not the empty string
IndexedAsStored ==
    \A id \in ttl :
        LET data == memory[id]
        IN /\ InOnly(by_type, data.document_type, id)
           /\ InOnly(by_intent, data.intent, id)
           /\ IF data.thread_id # ""
              THEN InOnly(by_thread, data.thread_id, id)
              ELSE InNone(by_thread, id)
           /\ IF data.conversation_id # ""
              THEN InOnly(by_conversation, data.conversation_id, id)
              ELSE InNone(by_conversation, id)

\* entries lists exactly the Entries of the hashes in ids, each once
ListsExactly(entries, ids) ==
    /\ Len(entries) = Cardinality(ids)
    /\ {entries[i] : i \in DOMAIN entries} = {Deserialize(memory[id]) : id \in ids}

\* a listing that ran over a settled, unchanging store returns exactly the
\* live Entries stored under its key: by type newest first, by thread oldest
\* first
ListingsExact ==
    \A c \in Readers :
        (loc'[c] # loc[c] /\ Returned(c)' /\ "quiet" \in DOMAIN loc'[c].response) =>
            LET answer == loc'[c].response
                entries == answer.entries
            IN answer.quiet =>
                 /\ answer.op = "get_entries_by_type" =>
                       /\ ListsExactly(entries,
                             {id \in DOMAIN memory :
                                memory[id].document_type = answer.arg})
                       /\ \A i, j \in DOMAIN entries :
                             i < j => entries[i].timestamp >= entries[j].timestamp
                 /\ answer.op = "get_entries_by_thread" =>
                       /\ ListsExactly(entries,
                             {id \in DOMAIN memory :
                                /\ answer.arg # ""
                                /\ memory[id].thread_id = answer.arg})
                       /\ \A i, j \in DOMAIN entries :
                             i < j => entries[i].timestamp <= entries[j].timestamp

OwnRecords(r, source) ==
    {i \in DOMAIN loc[r].written : loc[r].written[i].source = source}

\* C16: whenever the classifier's process has returned, whatever the model
\* answered and however the store commands ended, the request has written
\* exactly one hash with source classifier_agent and the returned memory_id
\* is that hash's id.
C16_ClassifierWritesOne ==
    \A r \in Requests :
        ClassifierReturned(r) =>
            /\ Cardinality(OwnRecords(r, "classifier_agent")) = 1
            /\ \A i \in OwnRecords(r, "classifier_agent") :
                  loc[r].written[i].id = loc[r].classification_result.memory_id


\* C17: whenever a handler's process has returned, the request has written
\* exactly one hash with that handler's source name, the analysis Entry or
\* the error Entry and never both or neither, and the returned memory_id is
\* that hash's id.
C17_HandlerWritesOne ==
    \A r \in Requests :
        HandlerReturned(r) =>
            /\ Cardinality(OwnRecords(r, loc[r].target_agent)) = 1
            /\ \A i \in OwnRecords(r, loc[r].target_agent) :
                  loc[r].written[i].id = loc[r].processing_result.memory_id


\* the ids held by the sets of an index
IndexedIds(index) == UNION {index[k] : k \in DOMAIN index}

\* C18: in every state of the store, under interleaved store_entry calls,
\* failures between the commands of a call and expiry of hashes, every id in
\* a by_type, by_intent, by_thread or by_conversation set has its hash in
\* the store.
C18_IndexedIdsHaveRecords ==
    IndexedIds(by_type) \cup IndexedIds(by_intent)
        \cup IndexedIds(by_thread) \cup IndexedIds(by_conversation)
            \subseteq DOMAIN memory


\* a store_entry call for id is still running
StoreInProgress(id) ==
    \E c \in Callers : loc[c].pc = "store_entry" /\ loc[c].call.entry_id = id

\* C19: every hash in the store whose store_entry call is over, returned or
\* raised, has a retention TTL, so that it expires; a hash without a TTL
\* belongs to a call that has not yet reached its expire command.
C19_RecordsHaveTTL ==
    \A id \in DOMAIN memory : id \in ttl \/ StoreInProgress(id)


\* the ids of the hashes request r has written so far
WrittenIds(r) == {loc[r].written[i].id : i \in DOMAIN loc[r].written}

\* C20: each hset of a store_entry call writes a key that was never written
\* before, and as long as the hash of an id stays in the store get_entry(id)
\* returns the same field values, whatever the pipeline does.
C20_WriteOnce ==
    [][/\ \A r \in Requests :
            Len(loc'[r].written) > Len(loc[r].written) =>
               LET id == loc'[r].written[Len(loc'[r].written)].id
               IN /\ id \notin DOMAIN memory
                  /\ \A q \in Requests : id \notin WrittenIds(q)
       /\ \A id \in DOMAIN memory \cap DOMAIN memory' :
            get_entry(id)' = get_entry(id)]_vars

C20_Witness ==
    \E r \in Requests :
        /\ Len(loc[r].written) = 3
        /\ Cardinality(WrittenIds(r)) = 3
        /\ loc[r].written[1].id \notin DOMAIN memory
        /\ loc[r].written[3].id \in DOMAIN memory
        /\ get_entry(loc[r].written[3].id).id = loc[r].written[3].id


\* C21: whenever a hash becomes visible in the store, its timestamp is not
\* earlier than the timestamp of any hash that was visible before it,
\* however the store_entry calls of the callers interleave.
C21_TimestampsFollowVisibility ==
    [][\A b \in DOMAIN memory' \ DOMAIN memory :
          \A a \in DOMAIN memory :
             get_entry(a).timestamp <= get_entry(b)'.timestamp]_vars


\* the classifier's four context keys, each overridden by the caller's
\* metadata where the metadata has that key
MergedContext(r) ==
    LET result == loc[r].classification_result
    IN Update([intent |-> result.classification.intent,
               format |-> result.classification.format,
               confidence |-> result.classification.confidence,
               classification_memory_id |-> result.memory_id],
              loc[r].metadata)

\* the hashes of the called handler that are still in the store
HandlerRecords(r) ==
    {loc[r].written[i].id : i \in OwnRecords(r, loc[r].target_agent)}
        \cap DOMAIN memory

IsAnalysis(id) == "analysis" \in DOMAIN memory[id].extracted_values.json

\* the handler called is the one the classifier's routing target names and
\* its context is the merged one
HandlerGotMergedContext(r) ==
    /\ loc[r].invoked = <<loc[r].classification_result.routing_target>>
    /\ loc[r].target_agent = loc[r].classification_result.routing_target
    /\ loc[r].context = MergedContext(r)
    /\ loc[r].intent = MergedContext(r).intent

\* C22: the context of the called handler is the classifier's {intent,
\* format, confidence, classification_memory_id} overridden key by key by
\* the metadata, the handler is the one the routing target names whatever
\* the metadata says, and a handler that got the model's answer and met no
\* Redis error has recorded its Entry under the merged context's intent,
\* letter case aside.
C22_ContextMerge ==
    \A r \in Requests :
        loc[r].invoked # <<>> =>
            /\ HandlerGotMergedContext(r)
            /\ (HandlerReturned(r) /\ Truthy(loc[r].analysis_result)
                    /\ loc[r].redis_errors = 0) =>
                  \A id \in HandlerRecords(r) :
                     memory[id].intent = Lower(MergedContext(r).intent)

\* C22 as it holds: the analysis Entry is recorded under the merged intent
\* in lower case; when that is none of the document intents no analysis
\* Entry is written, and an error Entry is always recorded under general.
C22_ContextMergeLowerCased ==
    \A r \in Requests :
        loc[r].invoked # <<>> =>
            /\ HandlerGotMergedContext(r)
            /\ \A id \in HandlerRecords(r) :
                  IF IsAnalysis(id)
                  THEN /\ memory[id].intent = Lower(MergedContext(r).intent)
                       /\ memory[id].extracted_values.json.analysis
                             = loc[r].analysis_result
                  ELSE memory[id].intent = "general"

C22_Witness ==
    \E r \in Requests :
        /\ HandlerReturned(r)
        /\ loc[r].metadata = [intent |-> "RFQ"]
        /\ loc[r].classification_result.classification.intent = "invoice"
        /\ loc[r].context.intent = "RFQ"
        /\ \E id \in HandlerRecords(r) :
              IsAnalysis(id) /\ memory[id].intent = "rfq"


\* caller c holds the outcome of a stage's parsing
Parsed(c) == Done(c) /\ "raw_content" \in DOMAIN loc[c].response

\* the object sits alone in a block fenced as json
FencedAsJson(c) ==
    /\ loc[c].response.lead \in {<<FenceJson>>, <<FenceJson, NL>>, <<FenceJson, SP>>}
    /\ loc[c].response.trail \in {<<Fence>>, <<NL, Fence>>, <<SP, Fence>>}

\* C23: for a response that is a well-formed JSON object fenced as json, each
\* of the three stages hands json.loads exactly the object's text and gets
\* the object that parsing the unfenced text gives.
C23_FencedJsonParsesAsUnfenced ==
    \A c \in Readers :
        (Parsed(c) /\ FencedAsJson(c)) =>
            LET r == loc[c].response
            IN /\ r.raw_content = r.object
               /\ r.data = JsonLoads(r.object, StageMembers(r.stage)).value
               /\ r.data = ParseResponse(r.stage, r.object)


\* the part of a response from its first opening brace to its last closing
\* brace
BraceSpan(text) ==
    SubSeq(text, FindFrom(text, {LBrace}, 1), RFind(text, {RBrace}))

\* the object has words before it and after it
WordsAround(c) ==
    /\ \E i \in DOMAIN loc[c].response.lead : loc[c].response.lead[i] = Word
    /\ \E i \in DOMAIN loc[c].response.trail : loc[c].response.trail[i] = Word

\* C24: for a response made of a JSON object with any prose before and after
\* it, each stage hands json.loads exactly the text from the first opening
\* brace to the last closing brace and gets the object that text stands for,
\* or its fallback object when that text is not valid JSON.
C24_ProseWrappedObject ==
    \A c \in Readers :
        (Parsed(c) /\ WordsAround(c)) =>
            LET r == loc[c].response
                span == JsonLoads(BraceSpan(r.text), StageMembers(r.stage))
            IN /\ r.raw_content = BraceSpan(r.text)
               /\ r.data = IF span.kind = "JSONDecodeError"
                           THEN StageFallback(r.stage)
                           ELSE span.value

====
